---- MODULE Spec2Model ----
(***************************************************************************)
(* A model of the coord_transforms conversion functions (src/src/d3.rs,    *)
(* src/src/geo.rs).                                                        *)
(*                                                                         *)
(* The functions compute on f64 values.  An f64 is modelled as a decimal   *)
(* floating-point number with DIGITS significant digits, the decimal       *)
(* exponent range of f64, signed zeros, infinities and NaN; +, -, *, / and *)
(* sqrt round to nearest (ties to even) as IEEE-754 prescribes, and sin,   *)
(* cos and atan2 are evaluated with guard digits and rounded once.         *)
(* Coefficients are naturals of arbitrary size, kept as little-endian      *)
(* sequences of limbs in base BASE.                                        *)
(***************************************************************************)
EXTENDS Integers, Sequences, FiniteSets, TLC

(***************************************************************************)
(* The state: a caller holds a vector, calls a conversion on the vector it *)
(* obtained last and keeps every vector it has.  vecs[1] is the caller's   *)
(* input, vecs[i + 1] the return value of the call calls[i] on vecs[i].    *)
(* ellipsoid is the model the geodetic conversions borrow; limit is the    *)
(* number of calls the caller makes.                                       *)
(***************************************************************************)
VARIABLES vecs, calls, ellipsoid, limit

(***************************************************************************)
(* The operations of the arithmetic, the conversions and the arguments a   *)
(* caller starts from are invoked through Call, which selects a definition *)
(* by its name and applies it to the tuple of its arguments:               *)
(* Call("BAdd", <<a, b>>) is BAdd(a, b).  Call is defined after the last   *)
(* definition it selects.                                                  *)
(***************************************************************************)
RECURSIVE Call(_, _)

(***************************************************************************)
(* Naturals of arbitrary size: <<>> is 0, the last limb is never 0.        *)
(***************************************************************************)
BASE == 10000
LIMB_DIGITS == 4

\* TRUE, for any sequence x and any natural n.  An operator evaluates an
\* argument only where it is used; a recursion that tests Strict(acc) or
\* StrictNat(rem) first computes the argument at every step, instead of
\* nesting the pending steps to the depth of the recursion.
Strict(x) == Len(x) >= 0
StrictNat(n) == n >= 0

\* The statements of a function body are computed one after the other: the
\* value of the last of them, each computed once the ones before it are.
Last(stmts) == stmts[Len(stmts)]

Min(x, y) == IF x <= y THEN x ELSE y
Max(x, y) == IF x >= y THEN x ELSE y

\* the number of limbs of a up to the last that is not 0
Top(a) ==
    CHOOSE i \in 0..Len(a) :
        (i = 0 \/ a[i] # 0) /\ \A j \in (i + 1)..Len(a) : a[j] = 0

BTrim(a) ==
    IF a = <<>> \/ a[Len(a)] # 0 THEN a ELSE SubSeq(a, 1, Top(a))

BLimb(a, i) == IF i >= 1 /\ i <= Len(a) THEN a[i] ELSE 0

BFromInt(n) ==
    IF n = 0 THEN <<>>
    ELSE IF n < BASE THEN <<n>>
    ELSE IF n < BASE * BASE THEN <<n % BASE, n \div BASE>>
    ELSE <<n % BASE, (n \div BASE) % BASE, n \div (BASE * BASE)>>

BZeros(n) == [i \in 1..n |-> 0]

\* the sequence of the limbs f[1], ..., f[n]
Limbs(f, n) == SubSeq(f, 1, n)

\* A carry enters limb i of a sum of limbs t, each at most 2 * BASE - 2, if
\* a limb below i overflows and every limb between them is BASE - 1.
CarryInto(t, i) ==
    /\ i > 1
    /\ \/ t[i - 1] >= BASE
       \/ /\ t[i - 1] = BASE - 1
          /\ \E j \in 1..(i - 2) :
                 t[j] >= BASE /\ \A l \in (j + 1)..(i - 2) : t[l] = BASE - 1

\* the natural of the limb sums t[1..n], the carries propagated
Carried(t, n) ==
    LET u == Limbs(t, n)
    IN  BTrim(Limbs([i \in 1..(n + 1) |->
                        (BLimb(u, i) + (IF CarryInto(u, i) THEN 1 ELSE 0)) % BASE], n + 1))

BAdd(a, b) ==
    IF a = <<>> THEN b
    ELSE IF b = <<>> THEN a
    ELSE LET n == Max(Len(a), Len(b))
         IN  Carried([i \in 1..n |-> BLimb(a, i) + BLimb(b, i)], n)

\* A borrow is taken from limb i of a - b if a limb of a below i is less
\* than that of b and the limbs between them are equal.
BorrowFrom(a, b, i) ==
    /\ i > 1
    /\ \/ a[i - 1] < BLimb(b, i - 1)
       \/ /\ a[i - 1] = BLimb(b, i - 1)
          /\ \E j \in 1..(i - 2) :
                 a[j] < BLimb(b, j) /\ \A l \in (j + 1)..(i - 2) : a[l] = BLimb(b, l)

\* a - b for a >= b
BSub(a, b) ==
    IF b = <<>> THEN a
    ELSE BTrim(Limbs([i \in 1..Len(a) |->
                         (a[i] - BLimb(b, i) - (IF BorrowFrom(a, b, i) THEN 1 ELSE 0) + BASE)
                             % BASE], Len(a)))

\* -1, 0, 1 as a < b, a = b, a > b
BCmp(a, b) ==
    IF Len(a) < Len(b) THEN -1
    ELSE IF Len(a) > Len(b) THEN 1
    ELSE IF a = b THEN 0
    ELSE LET i == CHOOSE i \in 1..Len(a) :
                      a[i] # b[i] /\ \A j \in (i + 1)..Len(a) : a[j] = b[j]
         IN  IF a[i] < b[i] THEN -1 ELSE 1

\* a * k for a limb-sized k (0 <= k < BASE): the low halves of the products
\* of the limbs, plus their high halves one limb up
BMulSmall(a, k) ==
    IF k = 0 \/ a = <<>> THEN <<>>
    ELSE LET n == Len(a) + 1
         IN  Carried([i \in 1..n |-> ((BLimb(a, i) * k) % BASE)
                                          + ((BLimb(a, i - 1) * k) \div BASE)], n)

BShiftLimbs(a, n) == IF a = <<>> THEN <<>> ELSE BZeros(n) \o a

\* f[i] + ... + f[j]; the range is halved, so that the sums nest to the
\* depth of the logarithm of its length
RECURSIVE Sum(_, _, _)
Sum(f, i, j) ==
    IF i > j THEN 0
    ELSE IF i = j THEN f[i]
    ELSE Sum(f, i, (i + j) \div 2) + Sum(f, (i + j) \div 2 + 1, j)

\* the sum of the low halves of the products a[i] * b[k + 1 - i]
ColumnLow(a, b, k) ==
    LET lo == Max(1, k + 1 - Len(b))
        hi == Min(Len(a), k)
    IN  Sum([i \in lo..hi |-> (a[i] * b[k + 1 - i]) % BASE], lo, hi)

\* the sum of the high halves of the products a[i] * b[k + 1 - i]
ColumnHigh(a, b, k) ==
    LET lo == Max(1, k + 1 - Len(b))
        hi == Min(Len(a), k)
    IN  Sum([i \in lo..hi |-> (a[i] * b[k + 1 - i]) \div BASE], lo, hi)

\* a * b by columns: limb k of the product collects the low halves of the
\* products of column k and the high halves of those of column k - 1, and
\* what exceeds a limb moves one limb up before the carries are propagated
BMul(a, b) ==
    IF a = <<>> \/ b = <<>> THEN <<>>
    ELSE LET n == Len(a) + Len(b)
             col == Limbs([k \in 1..n |-> ColumnLow(a, b, k) + ColumnHigh(a, b, k - 1)], n)
         IN  Carried([k \in 1..(n + 1) |-> (BLimb(col, k) % BASE) + (BLimb(col, k - 1) \div BASE)],
                     n + 1)

\* <<the limbs i..j of (rem, a) div k, the remainder below limb i>>, from
\* limb j down, for a remainder rem < k above limb j
RECURSIVE BDivSmallC(_, _, _, _, _)
BDivSmallC(a, k, i, j, rem) ==
    IF StrictNat(rem) /\ i = j
    THEN LET s == rem * BASE + a[i]
         IN  <<<<s \div k>>, s % k>>
    ELSE LET m == (i + j) \div 2
             h == BDivSmallC(a, k, m + 1, j, rem)
             l == BDivSmallC(a, k, i, m, h[2])
         IN  Last(<<h, l, <<l[1] \o h[1], l[2]>>>>)

\* <<a div k, a mod k>> for 1 <= k < 10 * BASE
BDivSmall(a, k) ==
    IF a = <<>> THEN <<<<>>, 0>>
    ELSE LET r == BDivSmallC(a, k, 1, Len(a), 0)
         IN  <<Call("BTrim", <<r[1]>>), r[2]>>


\* The largest q with q * b <= r, counted down from the estimate qhat >= q.
RECURSIVE BFixQuot(_, _, _)
BFixQuot(r, b, qhat) ==
    IF Call("BCmp", <<Call("BMulSmall", <<b, qhat>>), r>>) > 0 THEN BFixQuot(r, b, qhat - 1) ELSE qhat

\* Long division, one limb of the quotient per step, from the top limb of a.
\* b is normalised (its top limb is at least BASE \div 2), so the estimate
\* from the two top limbs of the running remainder is at most 2 too large.
RECURSIVE BDivStep(_, _, _, _, _)
BDivStep(a, b, i, rem, quot) ==
    IF Strict(<<quot, rem>>) /\ i = 0 THEN <<Call("BTrim", <<quot>>), rem>>
    ELSE LET r1 == Call("BTrim", <<<<a[i]>> \o rem>>)
             n == Len(b)
             top == BLimb(r1, n + 1) * BASE + BLimb(r1, n)
             q == BFixQuot(r1, b, Min(BASE - 1, top \div b[n]))
         IN  BDivStep(a, b, i - 1, Call("BSub", <<r1, Call("BMulSmall", <<b, q>>)>>), <<q>> \o quot)

\* <<a div b, a mod b>> for b # 0
BDivMod(a, b) ==
    IF Call("BCmp", <<a, b>>) < 0 THEN <<<<>>, a>>
    ELSE IF Len(b) = 1
         THEN LET qr == Call("BDivSmall", <<a, b[1]>>) IN <<qr[1], Call("BFromInt", <<qr[2]>>)>>
         ELSE \* the limbs of a above the first Len(b) - 1 are below b: the
              \* division starts with them as the remainder
              LET d == BASE \div (b[Len(b)] + 1)
                  ad == Call("BMulSmall", <<a, d>>)
                  bd == Call("BMulSmall", <<b, d>>)
                  i == Len(ad) - Len(bd) + 1
                  qr == Call("BDivStep", <<ad, bd, i, SubSeq(ad, i + 1, Len(ad)), <<>>>>)
              IN  <<qr[1], Call("BDivSmall", <<qr[2], d>>)[1]>>

Pow10Small(k) == IF k = 0 THEN 1 ELSE IF k = 1 THEN 10 ELSE IF k = 2 THEN 100 ELSE 1000

DigitsOfLimb(x) == IF x < 10 THEN 1 ELSE IF x < 100 THEN 2 ELSE IF x < 1000 THEN 3 ELSE 4

\* the number of decimal digits of a (0 for 0)
BNumDigits(a) ==
    IF a = <<>> THEN 0 ELSE LIMB_DIGITS * (Len(a) - 1) + DigitsOfLimb(a[Len(a)])

BMulPow10(a, n) ==
    Call("BShiftLimbs", <<Call("BMulSmall", <<a, Pow10Small(n % LIMB_DIGITS)>>), n \div LIMB_DIGITS>>)

BPow10(n) == Call("BMulPow10", <<<<1>>, n>>)

\* a div 10^n
BQuotPow10(a, n) ==
    LET k == n \div LIMB_DIGITS
        m == n % LIMB_DIGITS
    IN  IF k >= Len(a) THEN <<>>
        ELSE IF m = 0 THEN SubSeq(a, k + 1, Len(a))
        ELSE Call("BDivSmall", <<SubSeq(a, k + 1, Len(a)), Pow10Small(m)>>)[1]

\* a mod 10^n
BRemPow10(a, n) ==
    LET k == n \div LIMB_DIGITS
        m == n % LIMB_DIGITS
    IN  IF k >= Len(a) THEN a
        ELSE IF m = 0 THEN Call("BTrim", <<SubSeq(a, 1, k)>>)
        ELSE Call("BTrim", <<Append(SubSeq(a, 1, k), a[k + 1] % Pow10Small(m))>>)

\* <<a div 10^n, a mod 10^n>>
BDivPow10(a, n) == <<Call("BQuotPow10", <<a, n>>), Call("BRemPow10", <<a, n>>)>>

BIsOdd(a) == a # <<>> /\ a[1] % 2 = 1

\* a / 10^n rounded to the nearest natural, ties to even; sticky says that
\* the exact value is a little more than a.
BRoundPow10(a, n, sticky) ==
    IF n = 0 THEN a
    ELSE LET qr == Call("BDivPow10", <<a, n>>)
             c == Call("BCmp", <<qr[2], Call("BMulPow10", <<<<5>>, n - 1>>)>>)
         IN  IF c > 0 \/ (c = 0 /\ (sticky \/ BIsOdd(qr[1])))
             THEN Call("BAdd", <<qr[1], <<1>>>>)
             ELSE qr[1]

\* floor(sqrt(n)) for an integer n, 0 <= n < BASE^2, by Newton's iteration
\* from x >= sqrt(n)
RECURSIVE ISqrtIter(_, _)
ISqrtIter(n, x) ==
    LET y == (x + n \div x) \div 2
    IN  IF y >= x THEN x ELSE ISqrtIter(n, y)

ISqrt(n) == IF n = 0 THEN 0 ELSE ISqrtIter(n, BASE)

\* floor of the square root, by Newton's iteration from above
RECURSIVE BSqrtIter(_, _)
BSqrtIter(n, x) ==
    LET y == Call("BDivSmall", <<Call("BAdd", <<x, Call("BDivMod", <<n, x>>)[1]>>), 2>>)[1]
    IN  IF Strict(x) /\ Call("BCmp", <<y, x>>) >= 0 THEN x ELSE BSqrtIter(n, y)

\* the iteration starts from the square root of the top one or two limbs,
\* rounded up, which is above the root
BSqrt(n) ==
    IF n = <<>> THEN <<>>
    ELSE LET len == Len(n)
             top == IF len % 2 = 0 THEN n[len] * BASE + n[len - 1] ELSE n[len]
             k == (len - 1) \div 2
         IN  BSqrtIter(n, Call("BShiftLimbs", <<Call("BFromInt", <<ISqrt(top) + 1>>), k>>))

(***************************************************************************)
(* Floating-point values.  k is "fin", "inf" or "nan"; s is the sign bit;  *)
(* a finite value is (-1)^s * c * 10^e, c a natural of at most p digits,   *)
(* of exactly p digits unless e is the least exponent (a subnormal), and   *)
(* c = 0, e = 0 for a zero.  A format f gives the precision p, the least   *)
(* exponent etiny and the greatest exponent emax of a leading digit.       *)
(***************************************************************************)
DIGITS == 16
MAX_10_EXP == 308
MIN_10_EXP == -324

F64 == [p |-> DIGITS, etiny |-> MIN_10_EXP, emax |-> MAX_10_EXP]

NaN == [k |-> "nan", s |-> 0, c |-> <<>>, e |-> 0]
Inf(s) == [k |-> "inf", s |-> s, c |-> <<>>, e |-> 0]
Zero(s) == [k |-> "fin", s |-> s, c |-> <<>>, e |-> 0]
Fin(s, c, e) == [k |-> "fin", s |-> s, c |-> c, e |-> e]

IsNaN(x) == x.k = "nan"
IsInf(x) == x.k = "inf"
IsFinite(x) == x.k = "fin"
IsZero(x) == x.k = "fin" /\ x.c = <<>>

\* (-1)^s * c * 10^e (a little more, with sticky) rounded to the format:
\* to nearest, ties to even, to an infinity past emax, gradually to zero.
FRound(f, s, c, e, sticky) ==
    IF c = <<>> THEN Zero(s)
    ELSE LET d == Call("BNumDigits", <<c>>)
             e1 == Max(e + d - f.p, f.etiny)
             q == IF e1 - e > d THEN <<>>
                  ELSE IF e1 >= e THEN BRoundPow10(c, e1 - e, sticky)
                  ELSE Call("BMulPow10", <<c, e - e1>>)
             over == Call("BNumDigits", <<q>>) > f.p
             q2 == IF over THEN Call("BQuotPow10", <<q, 1>>) ELSE q
             e2 == IF over THEN e1 + 1 ELSE e1
         IN  Last(<<q, q2,
                    IF q2 = <<>> THEN Zero(s)
                    ELSE IF e2 + Call("BNumDigits", <<q2>>) - 1 > f.emax THEN Inf(s)
                    ELSE Fin(s, q2, e2)>>)

\* the f64 nearest to (-1)^s * n * 10^e, n a natural below BASE^3
Dec(s, n, e) == Call("FRound", <<F64, s, Call("BFromInt", <<n>>), e, FALSE>>)

\* -x: the sign bit flipped, of a NaN too
FNeg(x) == [x EXCEPT !.s = 1 - x.s]

FAbs(x) == [x EXCEPT !.s = 0]

\* the position of the leading digit of a finite x # 0
LeadExp(x) == x.e + Call("BNumDigits", <<x.c>>) - 1

\* -1, 0, 1 as |a| < |b|, |a| = |b|, |a| > |b|, for finite a and b
MagCmp(a, b) ==
    IF IsZero(a) THEN (IF IsZero(b) THEN 0 ELSE -1)
    ELSE IF IsZero(b) THEN 1
    ELSE IF LeadExp(a) < LeadExp(b) THEN -1
    ELSE IF LeadExp(a) > LeadExp(b) THEN 1
    ELSE IF a.e >= b.e THEN Call("BCmp", <<Call("BMulPow10", <<a.c, a.e - b.e>>), b.c>>)
    ELSE Call("BCmp", <<a.c, Call("BMulPow10", <<b.c, b.e - a.e>>)>>)

\* a < b, a <= b, a == b as f64 compares: false with a NaN, -0 equal to +0
FLt(a, b) ==
    IF IsNaN(a) \/ IsNaN(b) THEN FALSE
    ELSE IF IsInf(a) THEN a.s = 1 /\ ~(IsInf(b) /\ b.s = 1)
    ELSE IF IsInf(b) THEN b.s = 0
    ELSE IF IsZero(a) /\ IsZero(b) THEN FALSE
    ELSE IF a.s # b.s THEN (IF IsZero(a) THEN b.s = 0 ELSE IF IsZero(b) THEN a.s = 1 ELSE a.s = 1)
    ELSE IF a.s = 0 THEN MagCmp(a, b) < 0
    ELSE MagCmp(a, b) > 0

FEq(a, b) ==
    IF IsNaN(a) \/ IsNaN(b) THEN FALSE
    ELSE IF IsInf(a) \/ IsInf(b) THEN a = b
    ELSE IF IsZero(a) \/ IsZero(b) THEN IsZero(a) /\ IsZero(b)
    ELSE a.s = b.s /\ MagCmp(a, b) = 0

FLe(a, b) == FLt(a, b) \/ FEq(a, b)

\* a + b for finite a # 0 and b # 0, the exponent of a not below that of b
AddAligned(f, a, b) ==
    IF LeadExp(a) - LeadExp(b) > Max(f.p + 2, Call("BNumDigits", <<a.c>>))
    THEN \* b is below the digit a + b is rounded at: it decides a tie only
         LET n == Max(0, f.p + 3 - Call("BNumDigits", <<a.c>>))
             ca == Call("BMulPow10", <<a.c, n>>)
         IN  IF a.s = b.s THEN Call("FRound", <<f, a.s, ca, a.e - n, TRUE>>)
             ELSE Call("FRound", <<f, a.s, Call("BSub", <<ca, <<1>>>>), a.e - n, TRUE>>)
    ELSE LET ca == Call("BMulPow10", <<a.c, a.e - b.e>>)
             c == Call("BCmp", <<ca, b.c>>)
         IN  IF a.s = b.s THEN Call("FRound", <<f, a.s, Call("BAdd", <<ca, b.c>>), b.e, FALSE>>)
             ELSE IF c = 0 THEN Zero(0)
             ELSE IF c > 0 THEN Call("FRound", <<f, a.s, Call("BSub", <<ca, b.c>>), b.e, FALSE>>)
             ELSE Call("FRound", <<f, b.s, Call("BSub", <<b.c, ca>>), b.e, FALSE>>)

FAdd(f, a, b) ==
    IF IsNaN(a) \/ IsNaN(b) THEN NaN
    ELSE IF IsInf(a) THEN (IF IsInf(b) /\ a.s # b.s THEN NaN ELSE a)
    ELSE IF IsInf(b) THEN b
    ELSE IF IsZero(a) /\ IsZero(b) THEN Zero(IF a.s = 1 /\ b.s = 1 THEN 1 ELSE 0)
    ELSE IF IsZero(a) THEN Call("FRound", <<f, b.s, b.c, b.e, FALSE>>)
    ELSE IF IsZero(b) THEN Call("FRound", <<f, a.s, a.c, a.e, FALSE>>)
    ELSE IF a.e >= b.e THEN Call("AddAligned", <<f, a, b>>)
    ELSE Call("AddAligned", <<f, b, a>>)

FSub(f, a, b) == Call("FAdd", <<f, a, FNeg(b)>>)

Xor(s, t) == IF s = t THEN 0 ELSE 1

FMul(f, a, b) ==
    IF IsNaN(a) \/ IsNaN(b) THEN NaN
    ELSE IF IsInf(a) \/ IsInf(b)
         THEN (IF IsZero(a) \/ IsZero(b) THEN NaN ELSE Inf(Xor(a.s, b.s)))
    ELSE Call("FRound", <<f, Xor(a.s, b.s), Call("BMul", <<a.c, b.c>>), a.e + b.e, FALSE>>)

FDiv(f, a, b) ==
    IF IsNaN(a) \/ IsNaN(b) THEN NaN
    ELSE IF IsInf(a) THEN (IF IsInf(b) THEN NaN ELSE Inf(Xor(a.s, b.s)))
    ELSE IF IsInf(b) THEN Zero(Xor(a.s, b.s))
    ELSE IF IsZero(b) THEN (IF IsZero(a) THEN NaN ELSE Inf(Xor(a.s, b.s)))
    ELSE IF IsZero(a) THEN Zero(Xor(a.s, b.s))
    ELSE LET n == f.p + 2 + Max(0, Call("BNumDigits", <<b.c>>) - Call("BNumDigits", <<a.c>>))
             qr == Call("BDivMod", <<Call("BMulPow10", <<a.c, n>>), b.c>>)
         IN  Last(<<qr, Call("FRound", <<f, Xor(a.s, b.s), qr[1], a.e - b.e - n, qr[2] # <<>>>>)>>)

FSqrt(f, a) ==
    IF IsNaN(a) THEN NaN
    ELSE IF IsZero(a) THEN a
    ELSE IF a.s = 1 THEN NaN
    ELSE IF IsInf(a) THEN a
    ELSE LET n0 == Max(0, 2 * f.p + 2 - Call("BNumDigits", <<a.c>>))
             n == n0 + ((a.e - n0) % 2)
             c == Call("BMulPow10", <<a.c, n>>)
             r == BSqrt(c)
         IN  Last(<<c, r, Call("FRound", <<f, 0, r, (a.e - n) \div 2,
                                              Call("BCmp", <<Call("BMul", <<r, r>>), c>>) # 0>>)>>)

(***************************************************************************)
(* sin, cos and atan2.  Each is computed in fixed point, SCALE digits      *)
(* below the decimal point, and rounded once to the f64 format.            *)
(***************************************************************************)
SCALE == 28
REDUCE == 44
PI_DIGITS == 400
SERIES_TERMS == 14
ATAN_TERMS == 17
SMALL_EXP == -9

\* floor(pi * 10^PI_DIGITS)
PI_400 ==
    <<6094, 1511, 5194, 1469, 1384, 6652, 8204, 548, 3053, 113, 360, 9259,
      3678, 5364, 9171, 2540, 2829, 2096, 5209, 4881, 8817, 3155, 6606, 8700,
      7245, 1273, 4914, 2602, 3607, 1339, 6482, 4326, 1045, 3486, 3460, 6692,
      6485, 9145, 190, 2712, 3165, 8678, 2337, 5648, 2847, 4461, 5933, 7566,
      8109, 4428, 8196, 9303, 8954, 2294, 6446, 5559, 2110, 9385, 2701, 8410,
      4502, 1117, 2848, 4081, 5359, 3172, 5822, 9550, 4460, 938, 6647, 8230,
      5132, 8086, 8214, 679, 2117, 2534, 348, 8628, 899, 2862, 6406, 781,
      5923, 4944, 2097, 1058, 9375, 6939, 1971, 2884, 7950, 3832, 2643, 3846,
      7932, 3589, 9265, 1415, 3>>

\* floor(atan(i / 4) * 10^SCALE) for i = 1, 2, 3
ATAN_TABLE ==
    << <<4812, 2082, 5417, 8641, 3126, 7866, 2449>>,
       <<2314, 4256, 1621, 8061, 9000, 4760, 4636>>,
       <<2287, 2809, 8680, 2843, 8793, 110, 6435>> >>

\* floor(pi * 10^w), floor(pi / 2 * 10^w)
\* floor((2 / pi) * 10^PI_DIGITS)
TWO_OVER_PI_400 ==
    <<9834, 4155, 5696, 2678, 9146, 2629, 7515, 4608, 9779, 2187, 5851, 6794,
      6246, 2299, 8713, 2923, 3593, 3844, 9578, 9390, 9468, 6009, 5773, 9978,
      8923, 2114, 7634, 7513, 3747, 5764, 4819, 5824, 1069, 3476, 7560, 6184,
      8637, 9022, 9079, 4568, 9520, 4732, 5160, 6894, 6096, 4495, 6773, 9064,
      8695, 1584, 6957, 7548, 1230, 8770, 9855, 2310, 1029, 6363, 7749, 5986,
      9169, 9356, 2679, 6429, 1869, 1151, 3146, 4458, 4738, 5716, 2147, 3183,
      9070, 1370, 2429, 3438, 5012, 1106, 4552, 360, 614, 5369, 7190, 3558,
      3762, 669, 9499, 8257, 2961, 3858, 1378, 7448, 9005, 534, 5535, 4307,
      5813, 2367, 1977, 6366>>

PiScaled(w) == Call("BQuotPow10", <<PI_400, PI_DIGITS - w>>)
HalfPiScaled(w) == Call("BDivSmall", <<Call("PiScaled", <<w>>), 2>>)[1]

ONE == BPow10(SCALE)
PI_FX == Call("PiScaled", <<SCALE>>)
HALF_PI_FX == HalfPiScaled(SCALE)
QUARTER_PI_FX == Call("BDivSmall", <<PI_FX, 4>>)[1]

\* the product of two fixed-point numbers
FxMul(a, b) == Call("BQuotPow10", <<Call("BMul", <<a, b>>), SCALE>>)

\* sin(r) / r = 1 - r2/(2*3) * (1 - r2/(4*5) * (1 - ...)) for r2 = r^2 <= 1
RECURSIVE SinHorner(_, _, _)
SinHorner(r2, n, u) ==
    IF Strict(u) /\ n = 0 THEN u
    ELSE SinHorner(r2, n - 1, Call("BSub", <<ONE, Call("BDivSmall", <<Call("FxMul", <<r2, u>>), 2 * n * (2 * n + 1)>>)[1]>>))

\* cos(r) = 1 - r2/(1*2) * (1 - r2/(3*4) * (1 - ...))
RECURSIVE CosHorner(_, _, _)
CosHorner(r2, n, u) ==
    IF Strict(u) /\ n = 0 THEN u
    ELSE CosHorner(r2, n - 1, Call("BSub", <<ONE, Call("BDivSmall", <<Call("FxMul", <<r2, u>>), (2 * n - 1) * 2 * n>>)[1]>>))

\* atan(t) / t = 1/1 - t2 * (1/3 - t2 * (1/5 - ...)) for t2 = t^2 <= 1/64
RECURSIVE AtanHorner(_, _, _)
AtanHorner(t2, n, u) ==
    IF Strict(u) /\ n = 0 THEN u
    ELSE AtanHorner(t2, n - 1, Call("BSub", <<Call("BDivSmall", <<ONE, 2 * n - 1>>)[1], Call("FxMul", <<t2, u>>)>>))

AtanOverT(t2) == Call("AtanHorner", <<t2, ATAN_TERMS, Call("BDivSmall", <<ONE, 2 * ATAN_TERMS + 1>>)[1]>>)

\* |x| = n * (pi / 2) + r with |r| <= pi / 4, for a finite x # 0: the
\* quadrant n mod 4, whether r < 0, and |r| as a natural scaled by 10^w.
\* |x| * (2 / pi) is formed from the digits of 2 / pi that decide its value
\* modulo 4 and the first REDUCE digits of its fraction: the digits more
\* than two places above the decimal point of x contribute multiples of 100
\* quarter turns.
Reduce(x) ==
    LET n == REDUCE + DIGITS + 2
        hi == Max(0, x.e - 2)
        lo == Max(0, x.e) + n
        t == Call("BQuotPow10", <<Call("BRemPow10", <<TWO_OVER_PI_400, PI_DIGITS - hi>>), PI_DIGITS - lo>>)
        w == lo - x.e
        qf == Call("BDivPow10", <<Call("BMul", <<x.c, t>>), w>>)
        up == Call("BCmp", <<Call("BMulSmall", <<qf[2], 2>>), BPow10(w)>>) > 0
        k == IF qf[1] = <<>> THEN 0 ELSE qf[1][1] % 4
        fr == IF up THEN Call("BSub", <<BPow10(w), qf[2]>>) ELSE qf[2]
    IN  Last(<<t, qf, up, fr,
               [n |-> (k + (IF up THEN 1 ELSE 0)) % 4, neg |-> up,
                r |-> Call("BQuotPow10", <<Call("BMul", <<fr, HalfPiScaled(n)>>), n>>),
                w |-> w]>>)

\* |r| in fixed point, for the r of a reduction
FxOf(red) == Call("BQuotPow10", <<red.r, red.w - SCALE>>)

\* sin r and cos r for the r of a reduction, each as a sign, a coefficient
\* and an exponent, not yet rounded
SinOf(red) ==
    LET r2 == Call("FxMul", <<FxOf(red), FxOf(red)>>)
    IN  [s |-> IF red.neg THEN 1 ELSE 0,
         c |-> Call("BMul", <<red.r, Call("SinHorner", <<r2, SERIES_TERMS, ONE>>)>>), e |-> -red.w - SCALE]

CosOf(red) ==
    LET r2 == Call("FxMul", <<FxOf(red), FxOf(red)>>)
    IN  [s |-> 0, c |-> CosHorner(r2, SERIES_TERMS, ONE), e |-> -SCALE]

Negated(v) == [v EXCEPT !.s = 1 - v.s]

\* f64::sin
Sin(x) ==
    IF IsNaN(x) \/ IsInf(x) THEN NaN
    ELSE IF IsZero(x) \/ LeadExp(x) < SMALL_EXP THEN x
    ELSE LET red == Call("Reduce", <<x>>)
             v == IF red.n = 0 THEN Call("SinOf", <<red>>)
                  ELSE IF red.n = 1 THEN Call("CosOf", <<red>>)
                  ELSE IF red.n = 2 THEN Negated(Call("SinOf", <<red>>))
                  ELSE Negated(Call("CosOf", <<red>>))
         IN  Last(<<red, v, Call("FRound", <<F64, Xor(v.s, x.s), v.c, v.e, TRUE>>)>>)

\* f64::cos
Cos(x) ==
    IF IsNaN(x) \/ IsInf(x) THEN NaN
    ELSE IF IsZero(x) \/ LeadExp(x) < SMALL_EXP THEN Dec(0, 1, 0)
    ELSE LET red == Call("Reduce", <<x>>)
             v == IF red.n = 0 THEN Call("CosOf", <<red>>)
                  ELSE IF red.n = 1 THEN Negated(Call("SinOf", <<red>>))
                  ELSE IF red.n = 2 THEN Negated(Call("CosOf", <<red>>))
                  ELSE Call("SinOf", <<red>>)
         IN  Last(<<red, v, Call("FRound", <<F64, v.s, v.c, v.e, TRUE>>)>>)

\* floor(a * 10^n / b) for naturals a and b # 0, and any integer n
ScaledQuot(a, n, b) ==
    IF n >= 0 THEN Call("BDivMod", <<Call("BMulPow10", <<a, n>>), b>>)[1]
    ELSE IF -n > Call("BNumDigits", <<a>>) THEN <<>>
    ELSE Call("BDivMod", <<a, Call("BMulPow10", <<b, -n>>)>>)[1]

\* atan(q) in fixed point for a fixed-point q in 0..1: q is moved to within
\* 1/8 of the nearest i / 4 by atan(q) = atan(c) + atan((q - c) / (1 + q*c))
AtanFx(q) ==
    LET i == Call("BDivSmall", <<Call("BAdd", <<Call("BMulSmall", <<q, 8>>), ONE>>), 2>>)[1]   \* 4 * q + 1/2
        idx == IF Call("BCmp", <<i, ONE>>) < 0 THEN 0 ELSE Call("BQuotPow10", <<i, SCALE>>)[1]
        c == Call("BDivSmall", <<Call("BMulSmall", <<ONE, idx>>), 4>>)[1]
        below == Call("BCmp", <<q, c>>) < 0
        num == IF below THEN Call("BSub", <<c, q>>) ELSE Call("BSub", <<q, c>>)
        den == Call("BAdd", <<ONE, Call("BDivSmall", <<Call("BMulSmall", <<q, idx>>), 4>>)[1]>>)
        t == IF idx = 0 THEN q ELSE Call("BDivMod", <<Call("BMulPow10", <<num, SCALE>>), den>>)[1]
        at == Call("FxMul", <<t, AtanOverT(Call("FxMul", <<t, t>>))>>)
        base == IF idx = 0 THEN <<>>
                ELSE IF idx = 4 THEN QUARTER_PI_FX
                ELSE ATAN_TABLE[idx]
    IN  Last(<<i, idx, c, below, num, den, t, at,
               IF below THEN Call("BSub", <<base, at>>) ELSE Call("BAdd", <<base, at>>)>>)

\* atan2 of finite y # 0 and x # 0
Atan2Finite(y, x) ==
    LET steep == MagCmp(y, x) > 0
        lo == IF steep THEN x ELSE y
        hi == IF steep THEN y ELSE x
        q == ScaledQuot(lo.c, SCALE + lo.e - hi.e, hi.c)
    IN  IF Strict(q) /\ ~steep /\ x.s = 0 /\ Call("BCmp", <<Call("BMulSmall", <<q, 8>>), ONE>>) < 0
        THEN \* a small angle: (y / x) * (atan(q) / q), to keep the digits of y / x
             LET n == 2 * DIGITS
                 c == Call("BDivMod", <<Call("BMulPow10", <<Call("BMul", <<y.c, AtanOverT(Call("FxMul", <<q, q>>))>>), n>>), x.c>>)[1]
             IN  Call("FRound", <<F64, y.s, c, y.e - x.e - n - SCALE, TRUE>>)
        ELSE LET a == AtanFx(q)
                 b == IF steep THEN Call("BSub", <<HALF_PI_FX, a>>) ELSE a
                 r == IF x.s = 1 THEN Call("BSub", <<PI_FX, b>>) ELSE b
             IN  Last(<<a, b, r, Call("FRound", <<F64, y.s, r, -SCALE, TRUE>>)>>)

FxToF64(s, c) == Call("FRound", <<F64, s, c, -SCALE, TRUE>>)

\* mutant of atan2: a domain error at (0, 0)
Atan2_domain(y, x) ==
    IF IsNaN(y) \/ IsNaN(x) THEN NaN
    ELSE IF IsZero(y) /\ IsZero(x) THEN [k |-> "domain error", s |-> 0, c |-> <<>>, e |-> 0]
    ELSE IF IsZero(y) THEN (IF x.s = 0 THEN Zero(y.s) ELSE Call("FxToF64", <<y.s, PI_FX>>))
    ELSE IF IsZero(x) THEN Call("FxToF64", <<y.s, HALF_PI_FX>>)
    ELSE IF IsInf(y) \/ IsInf(x) THEN NaN
    ELSE Atan2Finite(y, x)

\* f64::atan2, y.atan2(x)
Atan2(y, x) ==
    IF IsNaN(y) \/ IsNaN(x) THEN NaN
    ELSE IF IsZero(y) THEN (IF x.s = 0 THEN Zero(y.s) ELSE Call("FxToF64", <<y.s, PI_FX>>))
    ELSE IF IsZero(x) THEN Call("FxToF64", <<y.s, HALF_PI_FX>>)
    ELSE IF IsInf(y)
         THEN (IF ~IsInf(x) THEN Call("FxToF64", <<y.s, HALF_PI_FX>>)
               ELSE IF x.s = 0 THEN Call("FxToF64", <<y.s, QUARTER_PI_FX>>)
               ELSE Call("FxToF64", <<y.s, Call("BMulSmall", <<QUARTER_PI_FX, 3>>)>>))
    ELSE IF IsInf(x) THEN (IF x.s = 0 THEN Zero(y.s) ELSE Call("FxToF64", <<y.s, PI_FX>>))
    ELSE Atan2Finite(y, x)

(***************************************************************************)
(* The f64 operations the conversions use.                                 *)
(***************************************************************************)
Add(a, b) == Call("FAdd", <<F64, a, b>>)
Sub(a, b) == FSub(F64, a, b)
Mul(a, b) == Call("FMul", <<F64, a, b>>)
Div(a, b) == Call("FDiv", <<F64, a, b>>)
sqrt(a) == Call("FSqrt", <<F64, a>>)
sin(a) == Call("Sin", <<a>>)
cos(a) == Call("Cos", <<a>>)
atan2(y, x) == Call("Atan2", <<y, x>>)

\* f64::powi for the exponents the conversions use, 2 and 3
powi(a, n) == IF n = 2 THEN Mul(a, a) ELSE Mul(Mul(a, a), a)

Vector3_new(x, y, z) == <<x, y, z>>
X(v) == v[1]
Y(v) == v[2]
Z(v) == v[3]
SetX(v, a) == [v EXCEPT ![1] = a]
SetY(v, a) == [v EXCEPT ![2] = a]
SetZ(v, a) == [v EXCEPT ![3] = a]

ZeroVec == Vector3_new(Zero(0), Zero(0), Zero(0))

(***************************************************************************)
(* The ellipsoid model.  structs::geo_ellipsoid is not among the source    *)
(* files; it is modelled from the specification: the constructor derives   *)
(* b = a * (1 - f), e = sqrt(1 - (b/a)^2) and e' = sqrt((a/b)^2 - 1), and  *)
(* each accessor returns the stored value.                                 *)
(***************************************************************************)
F_ONE == Dec(0, 1, 0)

\* mutant of the constructor: b = a * (1 + f)
geo_ellipsoid_oblong(a, f) ==
    LET b == Mul(a, Add(F_ONE, f))
    IN  [semi_major_axis |-> a,
         flattening |-> f,
         semi_minor_axis |-> b,
         first_ecc |-> sqrt(Sub(F_ONE, powi(Div(b, a), 2))),
         second_ecc |-> sqrt(Sub(powi(Div(a, b), 2), F_ONE))]

geo_ellipsoid_new(a, f) ==
    LET b == Mul(a, Sub(F_ONE, f))
    IN  [semi_major_axis |-> a,
         flattening |-> f,
         semi_minor_axis |-> b,
         first_ecc |-> sqrt(Sub(F_ONE, powi(Div(b, a), 2))),
         second_ecc |-> sqrt(Sub(powi(Div(a, b), 2), F_ONE))]

get_semi_major_axis(el) == el.semi_major_axis
get_semi_minor_axis(el) == el.semi_minor_axis
get_first_ecc(el) == el.first_ecc
get_second_ecc(el) == el.second_ecc
get_flattening(el) == el.flattening

WGS84_SEMI_MAJOR_AXIS_METERS == Dec(0, 6378137, 0)
WGS84_FLATTENING == Div(F_ONE, Call("FRound", <<F64, 0, <<3563, 5722, 2982>>, -9, FALSE>>))

(***************************************************************************)
(* src/src/d3.rs                                                           *)
(***************************************************************************)
\* mutants of the 3-d conversions
spherical2cartesian_zsin(sphere_vec) ==
    Vector3_new(Mul(Mul(X(sphere_vec), sin(Y(sphere_vec))), cos(Z(sphere_vec))),
                Mul(Mul(X(sphere_vec), sin(Y(sphere_vec))), sin(Z(sphere_vec))),
                Mul(X(sphere_vec), sin(Y(sphere_vec))))
cylindrical2cartesian_swapped(cyl_vec) ==
    Vector3_new(Mul(X(cyl_vec), sin(Y(cyl_vec))),
                Mul(X(cyl_vec), cos(Y(cyl_vec))),
                Z(cyl_vec))

spherical2cartesian(sphere_vec) ==
    LET r0 == ZeroVec
        r1 == SetX(r0, Mul(Mul(X(sphere_vec), sin(Y(sphere_vec))), cos(Z(sphere_vec))))
        r2 == SetY(r1, Mul(Mul(X(sphere_vec), sin(Y(sphere_vec))), sin(Z(sphere_vec))))
        r3 == SetZ(r2, Mul(X(sphere_vec), cos(Y(sphere_vec))))
    IN  Last(<<r1, r2, r3>>)

cylindrical2cartesian(cyl_vec) ==
    LET r0 == ZeroVec
        r1 == SetX(r0, Mul(X(cyl_vec), cos(Y(cyl_vec))))
        r2 == SetY(r1, Mul(X(cyl_vec), sin(Y(cyl_vec))))
        r3 == SetZ(r2, Z(cyl_vec))
    IN  Last(<<r1, r2, r3>>)

cartesian2spherical(cart_vec) ==
    LET r0 == ZeroVec
        r1 == SetX(r0, sqrt(Add(Add(powi(X(cart_vec), 2), powi(Y(cart_vec), 2)),
                                powi(Z(cart_vec), 2))))
        r2 == SetY(r1, atan2(sqrt(Add(powi(X(cart_vec), 2), powi(Y(cart_vec), 2))),
                             Z(cart_vec)))
        r3 == SetZ(r2, atan2(Y(cart_vec), X(cart_vec)))
    IN  Last(<<r1, r2, r3>>)

\* mutant of cartesian2cylindrical: x.atan2(y)
cartesian2cylindrical_xy(cart_vec) ==
    Vector3_new(sqrt(Add(powi(X(cart_vec), 2), powi(Y(cart_vec), 2))),
                atan2(X(cart_vec), Y(cart_vec)),
                Z(cart_vec))

cartesian2cylindrical(cart_vec) ==
    LET r0 == ZeroVec
        r1 == SetX(r0, sqrt(Add(powi(X(cart_vec), 2), powi(Y(cart_vec), 2))))
        r2 == SetY(r1, atan2(Y(cart_vec), X(cart_vec)))
        r3 == SetZ(r2, Z(cart_vec))
    IN  Last(<<r1, r2, r3>>)

(***************************************************************************)
(* src/src/geo.rs                                                          *)
(***************************************************************************)
\* mutants of the axis swaps
enu2ned_noswap(enu_vec) == Vector3_new(X(enu_vec), Y(enu_vec), FNeg(Z(enu_vec)))
enu2ned_down(enu_vec) == Vector3_new(Y(enu_vec), X(enu_vec), FNeg(FAbs(Z(enu_vec))))
ned2enu_nonegate(ned_vec) == Vector3_new(Y(ned_vec), X(ned_vec), Z(ned_vec))

enu2ned(enu_vec) ==
    LET r0 == ZeroVec
        r1 == SetX(r0, Y(enu_vec))
        r2 == SetY(r1, X(enu_vec))
        r3 == SetZ(r2, FNeg(Z(enu_vec)))
    IN  r3

ned2enu(ned_vec) ==
    LET r0 == ZeroVec
        r1 == SetX(r0, Y(ned_vec))
        r2 == SetY(r1, X(ned_vec))
        r3 == SetZ(r2, FNeg(Z(ned_vec)))
    IN  r3

\* N = a / sqrt(1 - e^2 * sin^2), the sin^2 given
PrimeVertical(el, sin2) ==
    Div(get_semi_major_axis(el),
        sqrt(Sub(F_ONE, Mul(powi(get_first_ecc(el), 2), sin2))))

\* mutant of lla2ecef: z on a sphere of radius N
lla2ecef_sphere(lla_vec, el) ==
    LET N == PrimeVertical(el, powi(sin(X(lla_vec)), 2))
    IN  Vector3_new(Mul(Mul(Add(N, Z(lla_vec)), cos(X(lla_vec))), cos(Y(lla_vec))),
                    Mul(Mul(Add(N, Z(lla_vec)), cos(X(lla_vec))), sin(Y(lla_vec))),
                    Mul(Add(N, Z(lla_vec)), sin(X(lla_vec))))

lla2ecef(lla_vec, el) ==
    LET r0 == ZeroVec
        N == PrimeVertical(el, powi(sin(X(lla_vec)), 2))
        r1 == SetX(r0, Mul(Mul(Add(N, Z(lla_vec)), cos(X(lla_vec))), cos(Y(lla_vec))))
        r2 == SetY(r1, Mul(Mul(Add(N, Z(lla_vec)), cos(X(lla_vec))), sin(Y(lla_vec))))
        r3 == SetZ(r2, Mul(Add(Mul(Div(powi(get_semi_minor_axis(el), 2),
                                       powi(get_semi_major_axis(el), 2)), N),
                               Z(lla_vec)),
                           sin(X(lla_vec))))
    IN  Last(<<N, r1, r2, r3>>)

ecef2lla(ecef_vec, el) ==
    LET r0 == ZeroVec
        p == sqrt(Add(powi(X(ecef_vec), 2), powi(Y(ecef_vec), 2)))
        theta == atan2(Mul(Z(ecef_vec), get_semi_major_axis(el)),
                       Mul(p, get_semi_minor_axis(el)))
        xTop == Add(Z(ecef_vec),
                    Mul(Mul(powi(get_second_ecc(el), 2), get_semi_minor_axis(el)),
                        powi(sin(theta), 3)))
        xBot == Sub(p,
                    Mul(Mul(powi(get_first_ecc(el), 2), get_semi_major_axis(el)),
                        powi(cos(theta), 3)))
        r1 == SetX(r0, atan2(xTop, xBot))
        r2 == SetY(r1, atan2(Y(ecef_vec), X(ecef_vec)))
        N == PrimeVertical(el, Mul(sin(X(r2)), sin(X(r2))))
        r3 == SetZ(r2, Sub(Div(p, cos(X(r2))), N))
    IN  Last(<<p, theta, xTop, xBot, r1, r2, N, r3>>)

(***************************************************************************)
(* The calls a caller makes.                                               *)
(***************************************************************************)
vars == <<vecs, calls, ellipsoid, limit>>

\* the borrowed argument of the next call
Arg == vecs[Len(vecs)]

\* mutant of Return: the result written through the borrowed argument
ReturnInPlace(ret_vec, fn) ==
    /\ Len(calls) < limit
    /\ vecs' = Append([vecs EXCEPT ![Len(vecs)] = ret_vec], ret_vec)
    /\ calls' = Append(calls, fn)
    /\ UNCHANGED <<ellipsoid, limit>>

\* a conversion builds a fresh ret_vec and returns it by value; the borrowed
\* arguments are shared references and are not written
Return(ret_vec, fn) ==
    /\ Len(calls) < limit
    /\ vecs' = Append(vecs, ret_vec)
    /\ calls' = Append(calls, fn)
    /\ UNCHANGED <<ellipsoid, limit>>

spherical2cartesian_call == Return(Call("spherical2cartesian", <<Arg>>), "spherical2cartesian")
cylindrical2cartesian_call == Return(Call("cylindrical2cartesian", <<Arg>>), "cylindrical2cartesian")
cartesian2spherical_call == Return(Call("cartesian2spherical", <<Arg>>), "cartesian2spherical")
cartesian2cylindrical_call == Return(Call("cartesian2cylindrical", <<Arg>>), "cartesian2cylindrical")
enu2ned_call == Return(Call("enu2ned", <<Arg>>), "enu2ned")
ned2enu_call == Return(Call("ned2enu", <<Arg>>), "ned2enu")
lla2ecef_call == Return(Call("lla2ecef", <<Arg, ellipsoid>>), "lla2ecef")
ecef2lla_call == Return(Call("ecef2lla", <<Arg, ellipsoid>>), "ecef2lla")

WGS84 == Call("geo_ellipsoid_new", <<WGS84_SEMI_MAJOR_AXIS_METERS, WGS84_FLATTENING>>)

\* the caller starts with one of the given vectors and ellipsoids
Start(inputs, ellipsoids, n) ==
    /\ vecs \in {<<v>> : v \in inputs}
    /\ calls = <<>>
    /\ ellipsoid \in ellipsoids
    /\ limit = n

\* calls[i] is a call of fn
Called(i, fn) == i \in 1..Len(calls) /\ calls[i] = fn

\* calls[i] and calls[i + 1] are calls of fn and gn, in this order
CalledThen(i, fn, gn) == Called(i, fn) /\ Called(i + 1, gn)

Cube(S) == {Vector3_new(x, y, z) : x \in S, y \in S, z \in S}

(***************************************************************************)
(* The local frames: enu2ned and ned2enu on vectors of every kind of f64.  *)
(***************************************************************************)
MaxCalls == 2

AxisSamples ==
    {Zero(0), Zero(1), Dec(0, 3, 0), Dec(0, 4, 0), Dec(0, 5, 0), Dec(1, 25, -1),
     Dec(0, 17, 307), Dec(1, 1, -324), Inf(0), Inf(1), NaN}

AxisInputs == Cube(AxisSamples)

InitAxes == Start(Call("AxisInputs", <<>>), {Call("WGS84", <<>>)}, MaxCalls)
NextAxes == enu2ned_call \/ ned2enu_call
SpecAxes == InitAxes /\ [][NextAxes]_vars

\* b is a with the sign flipped and nothing else changed
IsNegationOf(b, a) == b.k = a.k /\ b.c = a.c /\ b.e = a.e /\ b.s = 1 - a.s

\* r is (b, a, -c) for v = (a, b, c)
IsAxisSwapOf(r, v) == r[1] = v[2] /\ r[2] = v[1] /\ IsNegationOf(r[3], v[3])

V345 == Vector3_new(Dec(0, 3, 0), Dec(0, 4, 0), Dec(0, 5, 0))
V43m5 == Vector3_new(Dec(0, 4, 0), Dec(0, 3, 0), Dec(1, 5, 0))

\* C1: enu2ned and ned2enu return (b, a, -c) for the input (a, b, c); in
\* particular enu2ned((3, 4, 5)) is (4, 3, -5).
C1_AxisSwap ==
    \A i \in 1..Len(calls) :
        /\ (calls[i] \in {"enu2ned", "ned2enu"}) => IsAxisSwapOf(vecs[i + 1], vecs[i])
        /\ (calls[i] = "enu2ned" /\ vecs[i] = V345) => vecs[i + 1] = V43m5

C1_Witness ==
    /\ Called(1, "enu2ned") /\ vecs[1] = V345 /\ vecs[2] = V43m5
    /\ Called(2, "ned2enu")

\* C2: each of enu2ned and ned2enu is an involution: applied twice it
\* returns the original vector, bit for bit.
C2_Involution ==
    \A i \in 1..Len(calls) :
        (CalledThen(i, "enu2ned", "enu2ned") \/ CalledThen(i, "ned2enu", "ned2enu"))
            => vecs[i + 2] = vecs[i]

C2_Witness ==
    /\ CalledThen(1, "ned2enu", "ned2enu")
    /\ vecs[1] = Vector3_new(Dec(1, 25, -1), Dec(0, 17, 307), Zero(1))
    /\ vecs[2] # vecs[1]
    /\ vecs[3] = vecs[1]

\* C10: enu2ned and ned2enu are mutual inverses: ned2enu(enu2ned(v)) = v and
\* enu2ned(ned2enu(v)) = v, bit for bit.
C10_MutualInverses ==
    \A i \in 1..Len(calls) :
        (CalledThen(i, "enu2ned", "ned2enu") \/ CalledThen(i, "ned2enu", "enu2ned"))
            => vecs[i + 2] = vecs[i]

C10_Witness ==
    /\ CalledThen(1, "enu2ned", "ned2enu")
    /\ vecs[1] = Vector3_new(Dec(0, 3, 0), Dec(1, 1, -324), Inf(0))
    /\ vecs[2] = Vector3_new(Dec(1, 1, -324), Dec(0, 3, 0), Inf(1))
    /\ vecs[3] = vecs[1]

(***************************************************************************)
(* The 3-d conversions: cartesian vectors of several shapes at scales from *)
(* 10^(-50 * MaxScale) to 10^(50 * MaxScale), taken to spherical or        *)
(* cylindrical coordinates and back.                                       *)
(***************************************************************************)
MaxScale == 4

\* n * 10^e, 0 for n = 0
Num(n, e) == IF n = 0 THEN Zero(0) ELSE Dec(IF n < 0 THEN 1 ELSE 0, IF n < 0 THEN -n ELSE n, e)

CartShapes ==
    {<<3, 4, 5>>, <<-3, 4, -5>>, <<3, -4, 0>>, <<0, 4, 5>>, <<-3, 0, -5>>,
     <<1, -100000000, 1>>, <<-7, -7, 700000000>>}

CartInputs ==
    {Vector3_new(Num(sh[1], 50 * k), Num(sh[2], 50 * k), Num(sh[3], 50 * k)) :
        sh \in CartShapes, k \in (-MaxScale)..MaxScale}
    \cup {Vector3_new(Zero(0), Zero(0), Dec(0, 5, 0)), Vector3_new(Zero(0), Zero(1), Zero(0))}

InitSph == Start(Call("CartInputs", <<>>), {Call("WGS84", <<>>)}, MaxCalls)
NextSph == cartesian2spherical_call \/ spherical2cartesian_call
SpecSph == InitSph /\ [][NextSph]_vars

InitCyl == Start(Call("CartInputs", <<>>), {Call("WGS84", <<>>)}, MaxCalls)
NextCyl == cartesian2cylindrical_call \/ cylindrical2cartesian_call
SpecCyl == InitCyl /\ [][NextCyl]_vars

AllFinite(v) == \A i \in 1..3 : IsFinite(v[i])

FMax(a, b) == IF FLt(a, b) THEN b ELSE a

\* the largest magnitude among the components of v
MaxAbs(v) == FMax(FMax(FAbs(v[1]), FAbs(v[2])), FAbs(v[3]))

\* |a - b| <= tol
WithinAbs(a, b, tol) == FLe(FAbs(Sub(a, b)), tol)

\* every component of r is within tol, relative to the magnitude of v, of
\* the component of v
WithinRel(r, v, tol) ==
    \A i \in 1..3 : WithinAbs(r[i], v[i], Mul(tol, MaxAbs(v)))

TOL_1E9 == Dec(0, 1, -9)

\* x^2 + y^2 > 0
OffAxis(v) == ~(IsZero(v[1]) /\ IsZero(v[2]))

\* the largest component of v is between 1e-150 and 1e150 in magnitude, so
\* that its square neither overflows nor underflows
SquaresInRange(v) ==
    /\ FLe(Dec(0, 1, -150), MaxAbs(v))
    /\ FLe(MaxAbs(v), Dec(0, 1, 150))

\* C4 as stated: for every finite (x, y, z) with x^2 + y^2 > 0,
\* spherical2cartesian(cartesian2spherical((x, y, z))) is within 1e-9,
\* relative to the magnitude of the vector, of (x, y, z).
C4_AllFinite ==
    \A i \in 1..Len(calls) :
        (/\ CalledThen(i, "cartesian2spherical", "spherical2cartesian")
         /\ AllFinite(vecs[i]) /\ OffAxis(vecs[i]))
            => WithinRel(vecs[i + 2], vecs[i], TOL_1E9)

\* C4 amended: for every finite (x, y, z) with x^2 + y^2 > 0 whose largest
\* component is between 1e-150 and 1e150 in magnitude,
\* spherical2cartesian(cartesian2spherical((x, y, z))) is within 1e-9,
\* relative to the magnitude of the vector, of (x, y, z).
C4_RoundTrip ==
    \A i \in 1..Len(calls) :
        (/\ CalledThen(i, "cartesian2spherical", "spherical2cartesian")
         /\ AllFinite(vecs[i]) /\ OffAxis(vecs[i]) /\ SquaresInRange(vecs[i]))
            => WithinRel(vecs[i + 2], vecs[i], TOL_1E9)

C4_Witness ==
    /\ CalledThen(1, "cartesian2spherical", "spherical2cartesian")
    /\ vecs[1] = Vector3_new(Dec(0, 1, 100), Dec(1, 100000000, 100), Dec(0, 1, 100))
    /\ vecs[3] # vecs[1]
    /\ WithinRel(vecs[3], vecs[1], TOL_1E9)

\* C5 as stated: for every finite (x, y, z) with x^2 + y^2 > 0,
\* cylindrical2cartesian(cartesian2cylindrical((x, y, z))) is within 1e-9,
\* relative to the magnitude of the vector, of (x, y, z), and both
\* conversions pass z through unchanged.
C5_AllFinite ==
    \A i \in 1..Len(calls) :
        /\ (/\ CalledThen(i, "cartesian2cylindrical", "cylindrical2cartesian")
            /\ AllFinite(vecs[i]) /\ OffAxis(vecs[i]))
               => WithinRel(vecs[i + 2], vecs[i], TOL_1E9)
        /\ (calls[i] \in {"cartesian2cylindrical", "cylindrical2cartesian"})
               => vecs[i + 1][3] = vecs[i][3]

\* C5 amended: for every finite (x, y, z) with x^2 + y^2 > 0 whose largest
\* component is between 1e-150 and 1e150 in magnitude,
\* cylindrical2cartesian(cartesian2cylindrical((x, y, z))) is within 1e-9,
\* relative to the magnitude of the vector, of (x, y, z); and for every
\* input both conversions pass z through unchanged.
C5_RoundTrip ==
    \A i \in 1..Len(calls) :
        /\ (/\ CalledThen(i, "cartesian2cylindrical", "cylindrical2cartesian")
            /\ AllFinite(vecs[i]) /\ OffAxis(vecs[i]) /\ SquaresInRange(vecs[i]))
               => WithinRel(vecs[i + 2], vecs[i], TOL_1E9)
        /\ (calls[i] \in {"cartesian2cylindrical", "cylindrical2cartesian"})
               => vecs[i + 1][3] = vecs[i][3]

C5_Witness ==
    /\ CalledThen(1, "cartesian2cylindrical", "cylindrical2cartesian")
    /\ vecs[1] = Vector3_new(Dec(0, 1, -100), Dec(1, 100000000, -100), Dec(0, 1, -100))
    /\ vecs[2][1] # vecs[1][1]
    /\ vecs[3][3] = vecs[1][3]
    /\ WithinRel(vecs[3], vecs[1], TOL_1E9)

(***************************************************************************)
(* The geodetic conversions on the WGS84 ellipsoid: LLA vectors with       *)
(* latitudes from the equator to the last f64 below pi / 2, longitudes     *)
(* inside and outside [-pi, pi] and altitudes up to 10^MaxAltPow metres,   *)
(* taken to ECEF and back.                                                 *)
(***************************************************************************)
MaxAltPow == 6

\* std::f64::consts::PI and FRAC_PI_2
F_PI == FxToF64(0, PI_FX)
FRAC_PI_2 == FxToF64(0, HALF_PI_FX)

\* 48.856614 and 2.352222 degrees in radians
LAT_PARIS == FRound(F64, 0, <<9569, 5675, 877, 8527>>, -16, FALSE)
LON_PARIS == FRound(F64, 0, <<4606, 6378, 4018, 4105>>, -17, FALSE)

\* the largest f64 below pi / 2
LAT_LAST == FRound(F64, 0, <<4896, 2679, 7963, 1570>>, -15, FALSE)

LatSamples == {Zero(0), LAT_PARIS, Dec(1, 1, -300), FNeg(LAT_LAST)}

LonSamples == {LON_PARIS, FNeg(F_PI), Dec(0, 4, 0), Dec(0, 1, -312)}

AltSamples == {Dec(0, 1000, 0), Dec(1, 1, 5), Dec(0, 1, MaxAltPow)}

LlaInputs ==
    {Vector3_new(lat, lon, alt) : lat \in LatSamples, lon \in LonSamples, alt \in AltSamples}

InitGeo == Start(Call("LlaInputs", <<>>), {Call("WGS84", <<>>)}, MaxCalls)
NextGeo == lla2ecef_call \/ ecef2lla_call
SpecGeo == InitGeo /\ [][NextGeo]_vars

\* |r - v| <= tol * |v|
WithinRelOf(r, v, tol) == WithinAbs(r, v, Mul(tol, FAbs(v)))

TOL_1E6 == Dec(0, 1, -6)
TOL_1E3 == Dec(0, 1, -3)

\* r is v within 1e-6 relative in latitude and longitude and within 1e-3
\* metres in altitude
LlaClose(r, v) ==
    /\ WithinRelOf(r[1], v[1], TOL_1E6)
    /\ WithinRelOf(r[2], v[2], TOL_1E6)
    /\ WithinAbs(r[3], v[3], TOL_1E3)

\* the latitude is strictly between -90 and 90 degrees: FRAC_PI_2 is pi / 2
\* rounded up, the f64 below it is below pi / 2
LatInRange(v) == FLt(FAbs(v[1]), FRAC_PI_2)

\* the longitude is in [-pi, pi] and is 0 or at least 1e-280 in magnitude
LonInRange(v) ==
    /\ FLe(FAbs(v[2]), F_PI)
    /\ IsZero(v[2]) \/ FLe(Dec(0, 1, -280), FAbs(v[2]))

\* the altitude is within 100 km of the ellipsoid
AltInRange(v) == FLe(FAbs(v[3]), Dec(0, 1, 5))

\* C3 as stated: on the WGS84 ellipsoid, for every LLA vector v with
\* latitude strictly between -90 and 90 degrees, whatever its longitude and
\* altitude, ecef2lla(lla2ecef(v, e), e) is v within 1e-6 relative in
\* latitude and longitude and within 1e-3 metres in altitude.
C3_AnyLonAlt ==
    \A i \in 1..Len(calls) :
        (/\ CalledThen(i, "lla2ecef", "ecef2lla") /\ ellipsoid = WGS84
         /\ AllFinite(vecs[i]) /\ LatInRange(vecs[i]))
            => LlaClose(vecs[i + 2], vecs[i])

\* C3 amended: on the WGS84 ellipsoid, for every LLA vector v with latitude
\* strictly between -90 and 90 degrees, longitude in [-pi, pi] that is 0 or
\* at least 1e-280 in magnitude, and altitude within 1e5 metres of the
\* ellipsoid, ecef2lla(lla2ecef(v, e), e) is v within 1e-6 relative in
\* latitude and longitude and within 1e-3 metres in altitude.
C3_RoundTrip ==
    \A i \in 1..Len(calls) :
        (/\ CalledThen(i, "lla2ecef", "ecef2lla") /\ ellipsoid = WGS84
         /\ AllFinite(vecs[i]) /\ LatInRange(vecs[i])
         /\ LonInRange(vecs[i]) /\ AltInRange(vecs[i]))
            => LlaClose(vecs[i + 2], vecs[i])

C3_Witness ==
    /\ CalledThen(1, "lla2ecef", "ecef2lla")
    /\ vecs[1] = Vector3_new(LAT_PARIS, LON_PARIS, Dec(0, 1000, 0))
    /\ WithinAbs(vecs[2][1], FRound(F64, 0, <<949, 157, 42>>, -3, FALSE), TOL_1E3)
    /\ WithinAbs(vecs[2][2], Dec(0, 172588345, -3), TOL_1E3)
    /\ WithinAbs(vecs[2][3], FRound(F64, 0, <<5432, 8083, 47>>, -3, FALSE), TOL_1E3)
    /\ vecs[3] # vecs[1]
    /\ LlaClose(vecs[3], vecs[1])

(***************************************************************************)
(* The quadrants of the two-argument arctangent: cartesian vectors of      *)
(* every sign pattern, some with a coordinate that is tiny against the     *)
(* others, given to the three conversions that compute an azimuth.         *)
(***************************************************************************)
MaxProbeCalls == 1

QuadInputs ==
    {Vector3_new(x, y, z) :
        x \in {Dec(0, 3, 0), Dec(1, 3, 0), Dec(1, 1, -17), Zero(1)},
        y \in {Dec(0, 4, 0), Dec(1, 4, 0), Zero(0), Zero(1)},
        z \in {Dec(0, 5, 0), Dec(1, 5, 0), Dec(1, 1, -17)}}

InitQuad == Start(Call("QuadInputs", <<>>), {Call("WGS84", <<>>)}, MaxProbeCalls)
NextQuad == cartesian2spherical_call \/ cartesian2cylindrical_call \/ ecef2lla_call
SpecQuad == InitQuad /\ [][NextQuad]_vars

IsNegative(a) == FLt(a, Zero(0))
IsPositive(a) == FLt(Zero(0), a)

\* calls[i] computed an azimuth or longitude: where it is in the result
AzimuthAt(i) ==
    IF calls[i] = "cartesian2spherical" THEN 3
    ELSE IF calls[i] \in {"cartesian2cylindrical", "ecef2lla"} THEN 2
    ELSE 0

DegenerateInputs ==
    {ZeroVec,
     Vector3_new(Zero(1), Zero(1), Zero(1)),
     Vector3_new(Zero(0), Zero(0), Dec(0, 5, 0)),
     Vector3_new(Zero(0), Zero(1), Dec(1, 5, 0)),
     Vector3_new(FRAC_PI_2, Zero(0), Zero(0)),
     Vector3_new(FNeg(FRAC_PI_2), F_PI, Dec(0, 1000, 0)),
     Vector3_new(Inf(0), Zero(0), Zero(0)),
     Vector3_new(Dec(0, 1, 0), Inf(1), Dec(0, 1, 0)),
     Vector3_new(Inf(1), Inf(0), Inf(0)),
     Vector3_new(NaN, Dec(0, 1, 0), Dec(0, 1, 0)),
     Vector3_new(Dec(0, 1, 0), Dec(0, 2, 0), NaN),
     Vector3_new(Dec(0, 1, 200), Dec(0, 1, 200), Dec(0, 1, 200)),
     Vector3_new(Dec(0, 17, 307), Dec(1, 17, 307), Dec(0, 17, 307)),
     Vector3_new(Dec(0, 1, -320), Dec(1, 1, -324), Dec(0, 1, -200)),
     Vector3_new(Zero(0), Zero(0), Dec(1, 6356752, 0)),
     V345}

InitAll == Start(Call("DegenerateInputs", <<>>), {Call("WGS84", <<>>)}, MaxProbeCalls)
NextAll ==
    \/ spherical2cartesian_call
    \/ cylindrical2cartesian_call
    \/ cartesian2spherical_call
    \/ cartesian2cylindrical_call
    \/ enu2ned_call
    \/ ned2enu_call
    \/ lla2ecef_call
    \/ ecef2lla_call
SpecAll == InitAll /\ [][NextAll]_vars

\* C6: no conversion changes its input vector or the ellipsoid: every
\* vector the caller holds, and the ellipsoid, is after a call what it was
\* before it; the result is a new vector.
C6_Frame ==
    [][/\ \A i \in 1..Len(vecs) : vecs'[i] = vecs[i]
       /\ Len(vecs') = Len(vecs) + 1
       /\ ellipsoid' = ellipsoid]_vars

C6_Witness ==
    /\ Called(1, "lla2ecef")
    /\ vecs[1] = Vector3_new(FNeg(FRAC_PI_2), F_PI, Dec(0, 1000, 0))
    /\ vecs[2] # vecs[1]
    /\ ellipsoid = WGS84

\* x is an f64: a finite number of at most DIGITS digits within the
\* exponent range, an infinity or a NaN
IsF64(x) ==
    /\ DOMAIN x = {"k", "s", "c", "e"}
    /\ x.k \in {"fin", "inf", "nan"}
    /\ x.s \in {0, 1}
    /\ x.k = "fin" /\ x.c # <<>> =>
         /\ BNumDigits(x.c) <= DIGITS
         /\ x.e >= MIN_10_EXP
         /\ LeadExp(x) <= MAX_10_EXP

\* C7: no conversion raises an error or aborts, whatever its input: every
\* call returns a vector of three f64 values, in which degenerate arithmetic
\* shows only as NaN or an infinity.
C7_Total ==
    /\ Len(vecs) = Len(calls) + 1
    /\ \A i \in 1..Len(vecs) : Len(vecs[i]) = 3 /\ \A j \in 1..3 : IsF64(vecs[i][j])

C7_Witness ==
    /\ Called(1, "cartesian2cylindrical")
    /\ vecs[1] = Vector3_new(Dec(0, 1, 200), Dec(0, 1, 200), Dec(0, 1, 200))
    /\ vecs[2][1] = Inf(0)
    /\ C7_Total

(***************************************************************************)
(* Ellipsoids of every size and flattening, borrowed by the geodetic       *)
(* conversions.                                                            *)
(***************************************************************************)
SemiMajorSamples ==
    {Dec(0, 1, 0), WGS84_SEMI_MAJOR_AXIS_METERS, Dec(0, 1, 150), Dec(0, 1, -150),
     Dec(0, 1, -320)}

FlatteningSamples ==
    {Zero(0), WGS84_FLATTENING, Dec(0, 5, -1),
     FRound(F64, 0, <<9999, 9999, 9999, 9999>>, -16, FALSE)}

Ellipsoids ==
    {geo_ellipsoid_new(a, f) : a \in SemiMajorSamples, f \in FlatteningSamples}

EllInputs ==
    {Vector3_new(LAT_PARIS, LON_PARIS, Dec(0, 1000, 0)),
     Vector3_new(Dec(1, 5, -1), Dec(0, 4, 0), Zero(0))}

InitEll == Start(Call("EllInputs", <<>>), Call("Ellipsoids", <<>>), MaxProbeCalls)
NextEll == lla2ecef_call \/ ecef2lla_call
SpecEll == InitEll /\ [][NextEll]_vars

\* a > 0 and f in [0, 1)
ValidParameters(el) ==
    /\ IsPositive(get_semi_major_axis(el))
    /\ FLe(Zero(0), get_flattening(el)) /\ FLt(get_flattening(el), F_ONE)

\* a is finite, between 1e-150 and 1e150
SemiMajorInRange(el) ==
    /\ FLe(Dec(0, 1, -150), get_semi_major_axis(el))
    /\ FLe(get_semi_major_axis(el), Dec(0, 1, 150))

\* 0 < b <= a, e >= 0 and e' >= 0
DerivedInRange(el) ==
    /\ IsPositive(get_semi_minor_axis(el))
    /\ FLe(get_semi_minor_axis(el), get_semi_major_axis(el))
    /\ FLe(Zero(0), get_first_ecc(el))
    /\ FLe(Zero(0), get_second_ecc(el))

Call(f, x) ==
    CASE x = <<>> ->
           (CASE f = "WGS84" -> WGS84
              [] f = "AxisInputs" -> AxisInputs
              [] f = "CartInputs" -> CartInputs
              [] f = "LlaInputs" -> LlaInputs
              [] f = "QuadInputs" -> QuadInputs
              [] f = "DegenerateInputs" -> DegenerateInputs
              [] f = "EllInputs" -> EllInputs
              [] f = "Ellipsoids" -> Ellipsoids)
      [] f = "AddAligned" -> AddAligned(x[1], x[2], x[3])
      [] f = "Atan2" -> Atan2(x[1], x[2])
      [] f = "AtanHorner" -> AtanHorner(x[1], x[2], x[3])
      [] f = "BAdd" -> BAdd(x[1], x[2])
      [] f = "BCmp" -> BCmp(x[1], x[2])
      [] f = "BDivMod" -> BDivMod(x[1], x[2])
      [] f = "BDivPow10" -> BDivPow10(x[1], x[2])
      [] f = "BQuotPow10" -> BQuotPow10(x[1], x[2])
      [] f = "BRemPow10" -> BRemPow10(x[1], x[2])
      [] f = "BDivSmall" -> BDivSmall(x[1], x[2])
      [] f = "BDivStep" -> BDivStep(x[1], x[2], x[3], x[4], x[5])
      [] f = "BFromInt" -> BFromInt(x[1])
      [] f = "BMul" -> BMul(x[1], x[2])
      [] f = "BMulPow10" -> BMulPow10(x[1], x[2])
      [] f = "BMulSmall" -> BMulSmall(x[1], x[2])
      [] f = "BNumDigits" -> BNumDigits(x[1])
      [] f = "BShiftLimbs" -> BShiftLimbs(x[1], x[2])
      [] f = "BSub" -> BSub(x[1], x[2])
      [] f = "BTrim" -> BTrim(x[1])
      [] f = "Cos" -> Cos(x[1])
      [] f = "CosOf" -> CosOf(x[1])
      [] f = "FAdd" -> FAdd(x[1], x[2], x[3])
      [] f = "FDiv" -> FDiv(x[1], x[2], x[3])
      [] f = "FMul" -> FMul(x[1], x[2], x[3])
      [] f = "FRound" -> FRound(x[1], x[2], x[3], x[4], x[5])
      [] f = "FSqrt" -> FSqrt(x[1], x[2])
      [] f = "FxMul" -> FxMul(x[1], x[2])
      [] f = "FxToF64" -> FxToF64(x[1], x[2])
      [] f = "PiScaled" -> PiScaled(x[1])
      [] f = "Reduce" -> Reduce(x[1])
      [] f = "Sin" -> Sin(x[1])
      [] f = "SinHorner" -> SinHorner(x[1], x[2], x[3])
      [] f = "SinOf" -> SinOf(x[1])
      [] f = "geo_ellipsoid_new" -> geo_ellipsoid_new(x[1], x[2])
      [] f = "spherical2cartesian" -> spherical2cartesian(x[1])
      [] f = "cylindrical2cartesian" -> cylindrical2cartesian(x[1])
      [] f = "cartesian2spherical" -> cartesian2spherical(x[1])
      [] f = "cartesian2cylindrical" -> cartesian2cylindrical(x[1])
      [] f = "enu2ned" -> enu2ned(x[1])
      [] f = "ned2enu" -> ned2enu(x[1])
      [] f = "lla2ecef" -> lla2ecef(x[1], x[2])
      [] f = "ecef2lla" -> ecef2lla(x[1], x[2])

====
